---- MODULE Spec2Model ----
(***************************************************************************)
(* Model of src/pdf_extractor.py (class PDFOutlineExtractor).              *)
(*                                                                         *)
(* Texts are sequences of one-character strings, so that strip(), lower(), *)
(* isdigit(), isupper(), substring tests and joins are computed the way    *)
(* Python computes them.  Font sizes and coordinates are integers.         *)
(*                                                                         *)
(* Three specifications share the variables:                               *)
(*   SpecLevel  - determine_heading_levels applied to a font_info list     *)
(*   Spec       - extract_outline applied to a document                    *)
(*   SpecFolder - process_folder applied to a directory listing            *)
(***************************************************************************)
EXTENDS Integers, Sequences, FiniteSets, TLC

VARIABLES
    \* determine_heading_levels
    font_info,      \* the list passed in; sorted in place by the call
    extracted,      \* history: the list as it was passed in
    headings,       \* the returned list of heading dictionaries
    sources,        \* history: for each returned heading, the tuple it was appended for
    lpc,            \* "call" | "returned" | "off"
    \* extract_outline
    doc,            \* the document behind pdf_path
    fault,          \* where the collaborator raised: "none", "open", "title", ...
    title,          \* the value extract_title returned to extract_outline
    result,         \* the returned dictionary {title, outline}
    handle,         \* "none" | "open" | "closed": the fitz document handle
    pc,             \* "call" | "returned" | "off"
    \* process_folder
    listing,        \* os.listdir(input_folder)
    pdf_files,      \* the filtered list
    idx,            \* number of loop iterations completed
    processed,      \* history: filenames extract_outline was called for
    attempts,       \* history: output names open(..., 'w') was called for
    outputs,        \* output name -> dictionary written
    fpc             \* "call" | "loop" | "returned" | "off"

lvars == <<font_info, extracted, headings, sources, lpc>>
ovars == <<doc, fault, title, result, handle, pc>>
fvars == <<listing, pdf_files, idx, processed, attempts, outputs, fpc>>
vars == <<font_info, extracted, headings, sources, lpc,
          doc, fault, title, result, handle, pc,
          listing, pdf_files, idx, processed, attempts, outputs, fpc>>

----------------------------------------------------------------------------
(* Strings *)

LowerLetters == <<"a","b","c","d","e","f","g","h","i","j","k","l","m",
                  "n","o","p","q","r","s","t","u","v","w","x","y","z">>
UpperLetters == <<"A","B","C","D","E","F","G","H","I","J","K","L","M",
                  "N","O","P","Q","R","S","T","U","V","W","X","Y","Z">>
Digits == {"0","1","2","3","4","5","6","7","8","9"}
Whitespace == {" ", "\t", "\n"}

Range(s) == {s[i] : i \in DOMAIN s}

IsUpperChar(c) == c \in Range(UpperLetters)
IsLowerChar(c) == c \in Range(LowerLetters)

\* str.lower() on one character
LowerChar(c) ==
    IF IsUpperChar(c)
    THEN LowerLetters[CHOOSE i \in DOMAIN UpperLetters : UpperLetters[i] = c]
    ELSE c

\* str.lower()
Lower(s) == [i \in DOMAIN s |-> LowerChar(s[i])]

RECURSIVE LStrip(_)
LStrip(s) ==
    IF s = <<>> THEN <<>>
    ELSE IF Head(s) \in Whitespace THEN LStrip(Tail(s)) ELSE s

RECURSIVE RStrip(_)
RStrip(s) ==
    IF s = <<>> THEN <<>>
    ELSE IF s[Len(s)] \in Whitespace THEN RStrip(SubSeq(s, 1, Len(s) - 1)) ELSE s

\* str.strip()
Strip(s) == RStrip(LStrip(s))

\* str.isdigit()
IsDigitStr(s) == s # <<>> /\ \A i \in DOMAIN s : s[i] \in Digits

\* str.isupper(): at least one cased character and no lowercase one
IsUpperStr(s) ==
    /\ \E i \in DOMAIN s : IsUpperChar(s[i])
    /\ \A i \in DOMAIN s : ~IsLowerChar(s[i])

\* pattern in text
Contains(text, pattern) ==
    \E i \in 0..(Len(text) - Len(pattern)) :
        SubSeq(text, i + 1, i + Len(pattern)) = pattern

\* text.count(c) for a one-character c
Count(text, c) == Cardinality({i \in DOMAIN text : text[i] = c})

\* text.endswith(suffix)
EndsWith(text, suffix) ==
    /\ Len(text) >= Len(suffix)
    /\ SubSeq(text, Len(text) - Len(suffix) + 1, Len(text)) = suffix

\* " ".join(parts)
RECURSIVE JoinSpace(_)
JoinSpace(parts) ==
    IF parts = <<>> THEN <<>>
    ELSE IF Len(parts) = 1 THEN parts[1]
    ELSE parts[1] \o <<" ">> \o JoinSpace(Tail(parts))

Reverse(s) == [i \in DOMAIN s |-> s[Len(s) + 1 - i]]

Max(a, b) == IF a >= b THEN a ELSE b

----------------------------------------------------------------------------
(* list.sort *)

\* comparison of two key tuples, as Python compares tuples of numbers
RECURSIVE KeyLess(_, _)
KeyLess(a, b) ==
    IF a = <<>> THEN b # <<>>
    ELSE IF b = <<>> THEN FALSE
    ELSE IF Head(a) < Head(b) THEN TRUE
    ELSE IF Head(b) < Head(a) THEN FALSE
    ELSE KeyLess(Tail(a), Tail(b))

\* insert a decorated item after every item that is not greater: stable
RECURSIVE InsertStable(_, _)
InsertStable(sorted, item) ==
    IF sorted = <<>> THEN <<item>>
    ELSE IF KeyLess(item.key, Head(sorted).key) THEN <<item>> \o sorted
    ELSE <<Head(sorted)>> \o InsertStable(Tail(sorted), item)

\* a stable ascending sort of items [key, val]
RECURSIVE StableSort(_)
StableSort(items) ==
    IF items = <<>> THEN <<>>
    ELSE InsertStable(StableSort(SubSeq(items, 1, Len(items) - 1)), items[Len(items)])

Undecorate(items) == [i \in DOMAIN items |-> items[i].val]

\* reverse=True done by sorting ascending and reversing the outcome: elements
\* with equal keys come out in the opposite of their original order
SortReversedUnstable(items) == Reverse(StableSort(items))

\* list.sort(reverse=True): the list is reversed, sorted stably and reversed
\* again, so that elements with equal keys keep their original order
SortReversed(items) == Reverse(StableSort(Reverse(items)))

----------------------------------------------------------------------------
(* determine_heading_levels *)

heading_levels == <<"H1", "H2", "H3">>

\* font_info.sort(key=lambda x: (x[3], x[1]), reverse=True)
sort_page_size_reverse(fi) ==
    Undecorate(SortReversed([i \in DOMAIN fi |->
        [key |-> <<fi[i].page, fi[i].size>>, val |-> fi[i]]]))

\* font_info.sort(key=lambda x: (x[3], -x[1]))
sort_page_negsize(fi) ==
    Undecorate(StableSort([i \in DOMAIN fi |->
        [key |-> <<fi[i].page, 0 - fi[i].size>>, val |-> fi[i]]]))

\* the sizes sorted ascending: the levels run from the smallest size
RECURSIVE font_sizes_ascending(_)
font_sizes_ascending(sizes) ==
    IF sizes = {} THEN <<>>
    ELSE LET m == CHOOSE x \in sizes : \A y \in sizes : x <= y
         IN <<m>> \o font_sizes_ascending(sizes \ {m})

\* font_sizes = list({...}); font_sizes.sort(reverse=True)
RECURSIVE font_sizes_sorted(_)
font_sizes_sorted(sizes) ==
    IF sizes = {} THEN <<>>
    ELSE LET m == CHOOSE x \in sizes : \A y \in sizes : x >= y
         IN <<m>> \o font_sizes_sorted(sizes \ {m})

\* size_to_level, from enumerate(font_sizes[:len(heading_levels)])
size_to_level(fi) ==
    LET font_sizes == font_sizes_sorted({fi[i].size : i \in DOMAIN fi})
        n == IF Len(font_sizes) < Len(heading_levels)
             THEN Len(font_sizes) ELSE Len(heading_levels)
    IN [s \in {font_sizes[i] : i \in 1..n} |->
           heading_levels[CHOOSE i \in 1..n : font_sizes[i] = s]]

\* the key compared without lowering it
seen_key_case_sensitive(text) == Strip(text)

\* cleaned.lower(), the key held in seen
seen_key(text) == Lower(Strip(text))

\* the loop with seen filled before the level test
RECURSIVE heading_loop_seen_first(_, _, _, _)
heading_loop_seen_first(fi, s2l, seen, acc) ==
    IF fi = <<>> THEN acc
    ELSE LET t == Head(fi)
             cleaned == Strip(t.text)
         IN IF seen_key(t.text) \in seen
            THEN heading_loop_seen_first(Tail(fi), s2l, seen, acc)
            ELSE IF t.size \in DOMAIN s2l
            THEN heading_loop_seen_first(Tail(fi), s2l, seen \cup {seen_key(t.text)},
                   [headings |-> Append(acc.headings,
                        [level |-> s2l[t.size], text |-> cleaned, page |-> t.page]),
                    sources |-> Append(acc.sources, t)])
            ELSE heading_loop_seen_first(Tail(fi), s2l, seen \cup {seen_key(t.text)}, acc)

\* for text, font_size, is_bold, page_num in font_info: ...
RECURSIVE heading_loop(_, _, _, _)
heading_loop(fi, s2l, seen, acc) ==
    IF fi = <<>> THEN acc
    ELSE LET t == Head(fi)
             cleaned == Strip(t.text)
         IN IF t.size \in DOMAIN s2l
            THEN IF seen_key(t.text) \in seen
                 THEN heading_loop(Tail(fi), s2l, seen, acc)
                 ELSE heading_loop(Tail(fi), s2l, seen \cup {seen_key(t.text)},
                        [headings |-> Append(acc.headings,
                             [level |-> s2l[t.size], text |-> cleaned, page |-> t.page]),
                         sources |-> Append(acc.sources, t)])
            ELSE heading_loop(Tail(fi), s2l, seen, acc)

\* the whole call: the list as left behind, the headings returned, and the
\* tuple each heading was made from
determine_heading_levels(fi) ==
    IF fi = <<>>
    THEN [font_info |-> fi, headings |-> <<>>, sources |-> <<>>]
    ELSE LET first == sort_page_size_reverse(fi)
             s2l == size_to_level(first)
             second == sort_page_negsize(first)
             out == heading_loop(second, s2l, {}, [headings |-> <<>>, sources |-> <<>>])
         IN [font_info |-> second, headings |-> out.headings, sources |-> out.sources]

----------------------------------------------------------------------------
(* __init__ defaults *)

min_font_size == 10
min_text_length == 3

----------------------------------------------------------------------------
(* extract_title *)

\* centered = abs(center - page_center) < page_width * 0.25, with
\* center = (bbox[0] + bbox[2]) / 2 and page_center = page_width / 2,
\* all multiplied by 4
Abs(x) == IF x < 0 THEN 0 - x ELSE x
centered(span, page_width) ==
    Abs(2 * (span.x0 + span.x1) - 2 * page_width) < page_width

\* for span in line.get("spans", []): ...
RECURSIVE title_line_loop(_, _, _)
title_line_loop(spans, page_width, acc) ==
    IF spans = <<>> THEN acc
    ELSE LET span == Head(spans)
             text == Strip(span.text)
         IN IF centered(span, page_width) /\ span.size >= min_font_size
            THEN title_line_loop(Tail(spans), page_width,
                   [line_centered |-> TRUE,
                    max_font_size |-> Max(acc.max_font_size, span.size),
                    line_text |-> acc.line_text \o text \o <<" ">>])
            ELSE title_line_loop(Tail(spans), page_width, acc)

\* for line in block['lines']: ... title_lines.append(...)
RECURSIVE title_block_loop(_, _, _)
title_block_loop(lines, page_width, title_lines) ==
    IF lines = <<>> THEN title_lines
    ELSE LET r == title_line_loop(Head(lines).spans, page_width,
                     [line_centered |-> FALSE, max_font_size |-> 0, line_text |-> <<>>])
         IN IF r.line_centered /\ Len(Strip(r.line_text)) >= min_text_length
            THEN title_block_loop(Tail(lines), page_width,
                     Append(title_lines,
                         [size |-> r.max_font_size, text |-> Strip(r.line_text)]))
            ELSE title_block_loop(Tail(lines), page_width, title_lines)

\* for block in blocks: if 'lines' not in block: continue ...
RECURSIVE title_page_loop(_, _, _)
title_page_loop(blocks, page_width, title_lines) ==
    IF blocks = <<>> THEN title_lines
    ELSE IF ~Head(blocks).has_lines
    THEN title_page_loop(Tail(blocks), page_width, title_lines)
    ELSE title_page_loop(Tail(blocks), page_width,
             title_block_loop(Head(blocks).lines, page_width, title_lines))

\* the lines left in the order in which they were collected
title_lines_unsorted(title_lines) == title_lines

\* title_lines.sort(key=lambda x: x[0], reverse=True)
title_lines_sorted(title_lines) ==
    Undecorate(SortReversed([i \in DOMAIN title_lines |->
        [key |-> <<title_lines[i].size>>, val |-> title_lines[i]]]))

\* raises: something in the try block raised, and the except clause returned ""
extract_title(d, raises) ==
    IF raises THEN <<>>
    ELSE IF Len(d.pages) = 0 THEN <<>>
    ELSE LET first_page == d.pages[1]
             title_lines == title_page_loop(first_page.blocks, first_page.width, <<>>)
         IN IF title_lines # <<>>
            THEN LET sorted == title_lines_sorted(title_lines)
                     top == SubSeq(sorted, 1, IF Len(sorted) < 2 THEN Len(sorted) ELSE 2)
                 IN Strip(JoinSpace([i \in DOMAIN top |-> top[i].text]))
            ELSE <<>>

----------------------------------------------------------------------------
(* _is_likely_body_text *)

\* "(c)" stands for the one character U+00A9
noise_patterns ==
    { <<"w","w","w",".">>, <<"h","t","t","p">>, <<".","c","o","m">>,
      <<"a","p","p","e","n","d","i","x">>,
      <<"c","o","p","y","r","i","g","h","t">>, <<"(c)">>,
      <<"t","a","b","l","e">>, <<"f","i","g","u","r","e">> }

is_likely_body_text(text) ==
    LET text_lower == Lower(text)
    IN IF Len(text) > 400 /\ ~IsUpperStr(text) THEN TRUE
       ELSE IF IsDigitStr(text) \/ (Len(text) <= 3 /\ IsDigitStr(text)) THEN TRUE
       ELSE IF \E pattern \in noise_patterns : Contains(text_lower, pattern) THEN TRUE
       ELSE IF Len(Strip(text)) <= 1 THEN TRUE
       ELSE IF Contains(text, <<"@">>) \/ Contains(text_lower, <<"h","t","t","p">>) THEN TRUE
       ELSE IF IsUpperStr(text) /\ Len(text) < 15 THEN TRUE
       ELSE IF /\ Contains(text, <<"-">>) \/ Contains(text, <<":">>)
               /\ Count(text, "-") > 3 \/ Count(text, ":") > 2 THEN TRUE
       ELSE FALSE

----------------------------------------------------------------------------
(* extract_font_info *)

\* bool(flags & 16)
bold_flag(flags) == (flags \div 16) % 2 = 1

\* for span in line.get("spans", []): ...
RECURSIVE font_line_loop(_, _)
font_line_loop(spans, acc) ==
    IF spans = <<>> THEN acc
    ELSE LET span == Head(spans)
             text == Strip(span.text)
         IN IF text # <<>>
            THEN font_line_loop(Tail(spans),
                   [line_text |-> acc.line_text \o text \o <<" ">>,
                    font_size |-> Max(acc.font_size, span.size),
                    is_bold |-> acc.is_bold \/ bold_flag(span.flags)])
            ELSE font_line_loop(Tail(spans), acc)

\* for line in block['lines']: ... block_lines.append(...)
RECURSIVE font_block_loop(_, _)
font_block_loop(lines, block_lines) ==
    IF lines = <<>> THEN block_lines
    ELSE LET r == font_line_loop(Head(lines).spans,
                     [line_text |-> <<>>, font_size |-> 0, is_bold |-> FALSE])
             line_text == Strip(r.line_text)
         IN IF line_text # <<>> /\ r.font_size >= min_font_size
            THEN font_block_loop(Tail(lines),
                     Append(block_lines,
                         [text |-> line_text, size |-> r.font_size, bold |-> r.is_bold]))
            ELSE font_block_loop(Tail(lines), block_lines)

RECURSIVE MaxSize(_)
MaxSize(block_lines) ==
    IF Len(block_lines) = 1 THEN block_lines[1].size
    ELSE Max(block_lines[1].size, MaxSize(Tail(block_lines)))

\* the tuples one block adds to font_info: none or one
block_candidate(block, page_number) ==
    IF ~block.has_lines THEN <<>>
    ELSE LET block_lines == font_block_loop(block.lines, <<>>)
         IN IF block_lines = <<>> THEN <<>>
            ELSE LET combined_text ==
                         Strip(JoinSpace([i \in DOMAIN block_lines |-> block_lines[i].text]))
                     max_font_size == MaxSize(block_lines)
                     bold == \E i \in DOMAIN block_lines : block_lines[i].bold
                 IN IF /\ Len(combined_text) >= min_text_length
                       /\ ~is_likely_body_text(combined_text)
                       /\ (max_font_size > 12 \/ bold)
                    THEN << [text |-> combined_text, size |-> max_font_size,
                             bold |-> bold, page |-> page_number] >>
                    ELSE <<>>

\* for block in blocks: ...
RECURSIVE font_page_loop(_, _)
font_page_loop(blocks, page_number) ==
    IF blocks = <<>> THEN <<>>
    ELSE block_candidate(Head(blocks), page_number)
            \o font_page_loop(Tail(blocks), page_number)

\* the page number recorded as the loop index page_num itself
page_number_zero_based(page_num) == page_num

\* page_num + 1
page_number(page_num) == page_num + 1

\* for page_num in range(len(doc)): ...
RECURSIVE font_doc_loop(_, _)
font_doc_loop(d, page_num) ==
    IF page_num >= Len(d.pages) THEN <<>>
    ELSE font_page_loop(d.pages[page_num + 1].blocks, page_number(page_num))
            \o font_doc_loop(d, page_num + 1)

extract_font_info(d) == font_doc_loop(d, 0)

----------------------------------------------------------------------------
(* extract_outline *)

\* the title compared as it stands
keeps_heading_case_sensitive(h, t) == Strip(h.text) # Strip(t)

\* h['text'].strip().lower() != title.strip().lower()
keeps_heading(h, t) == Lower(Strip(h.text)) # Lower(Strip(t))

RECURSIVE filtered_outline(_, _)
filtered_outline(hs, t) ==
    IF hs = <<>> THEN <<>>
    ELSE IF keeps_heading(Head(hs), t)
    THEN <<Head(hs)>> \o filtered_outline(Tail(hs), t)
    ELSE filtered_outline(Tail(hs), t)

\* the except clause handing back what had been computed before the failure
failure_result_partial(t) == [title |-> Strip(t), outline |-> <<>>]

\* except Exception: return {"title": "", "outline": []}
failure_result(t) == [title |-> <<>>, outline |-> <<>>]

Faults == {"none", "open", "title", "font_info", "leveling"}

\* f names the call that raised: fitz.open, something inside extract_title,
\* extract_font_info, or determine_heading_levels
extract_outline(d, f) ==
    IF f = "open"
    THEN [title |-> <<>>, result |-> failure_result(<<>>), handle |-> "none"]
    ELSE LET t == extract_title(d, f = "title")
         IN IF f \in {"font_info", "leveling"}
            THEN [title |-> t, result |-> failure_result(t), handle |-> "open"]
            ELSE LET hs == determine_heading_levels(extract_font_info(d)).headings
                 IN [title |-> t,
                     result |-> [title |-> Strip(t), outline |-> filtered_outline(hs, t)],
                     handle |-> "closed"]

----------------------------------------------------------------------------
(* Specification SpecLevel: determine_heading_levels on a font_info list *)

MaxTuples == 4

T(text, size, page) == [text |-> text, size |-> size, bold |-> FALSE, page |-> page]

txt_ab == <<"a", "b">>
txt_AB == <<" ", "A", "B">>
txt_cd == <<"c", "d">>
txt_ef == <<"e", "f">>

\* four font sizes on two pages, three keys; "ab" and " AB" share the key "ab"
TupleDomain ==
    { T(txt_ab, 18, 1), T(txt_AB, 18, 1), T(txt_cd, 18, 1),
      T(txt_cd, 16, 1), T(txt_AB, 16, 2), T(txt_ab, 14, 2),
      T(txt_ef, 14, 2), T(txt_ab, 12, 1),
      T(txt_cd, 12, 2) }

NoDoc == [pages |-> <<>>]
NoResult == [title |-> <<>>, outline |-> <<>>]

OutlineOff ==
    /\ doc = NoDoc /\ fault = "none" /\ title = <<>> /\ result = NoResult
    /\ handle = "none" /\ pc = "off"

FolderOff ==
    /\ listing = <<>> /\ pdf_files = <<>> /\ idx = 0 /\ processed = <<>>
    /\ attempts = <<>> /\ outputs = <<>> /\ fpc = "off"

LevelOff ==
    /\ font_info = <<>> /\ extracted = <<>> /\ headings = <<>>
    /\ sources = <<>> /\ lpc = "off"

InitLevel ==
    /\ font_info \in UNION {[1..n -> TupleDomain] : n \in 0..MaxTuples}
    /\ extracted = font_info
    /\ headings = <<>>
    /\ sources = <<>>
    /\ lpc = "call"
    /\ OutlineOff
    /\ FolderOff

\* if not font_info: return []
DetermineEmpty ==
    /\ lpc = "call"
    /\ font_info = <<>>
    /\ lpc' = "returned"
    /\ UNCHANGED <<font_info, extracted, headings, sources>>
    /\ UNCHANGED ovars
    /\ UNCHANGED fvars

DetermineHeadingLevels ==
    /\ lpc = "call"
    /\ font_info # <<>>
    /\ LET r == determine_heading_levels(font_info)
       IN /\ font_info' = r.font_info
          /\ headings' = r.headings
          /\ sources' = r.sources
    /\ lpc' = "returned"
    /\ UNCHANGED extracted
    /\ UNCHANGED ovars
    /\ UNCHANGED fvars

NextLevel == DetermineEmpty \/ DetermineHeadingLevels

SpecLevel == InitLevel /\ [][NextLevel]_vars

----------------------------------------------------------------------------
(* Specification Spec: extract_outline on a document *)

MaxPages == 3

S(text, size, flags, x0, x1) ==
    [text |-> text, size |-> size, flags |-> flags, x0 |-> x0, x1 |-> x1]
Ln(spans) == [spans |-> spans]
Blk(lines) == [has_lines |-> TRUE, lines |-> lines]

txt_Top == <<"T", "o", "p">>
txt_Sub == <<"S", "u", "b">>
txt_Abc == <<"A", "b", "c">>
txt_abc == <<"a", "b", "c", " ">>
txt_Xyz == <<"X", "y", "z">>
txt_Note == <<"N", "o", "t", "e">>
txt_text == <<"t", "e", "x", "t">>
txt_Table == <<"T", "a", "b", "l", "e", " ", "1">>
txt_INTRO == <<"I", "N", "T", "R", "O">>
txt_Ab == <<"A", "b">>
txt_c == <<" ", "c">>
txt_blank == <<" ", " ">>

\* two centered lines, 24pt and 20pt
bTitle == Blk(<< Ln(<<S(txt_Top, 24, 0, 200, 400)>>), Ln(<<S(txt_Sub, 20, 0, 250, 350)>>) >>)
\* 18pt at the left margin
bLeftBig == Blk(<< Ln(<<S(txt_Abc, 18, 0, 0, 100)>>) >>)
\* 14pt centered, the same words in lower case
bCenterSmall == Blk(<< Ln(<<S(txt_abc, 14, 0, 280, 340)>>) >>)
\* 22pt centered
bCenterXyz == Blk(<< Ln(<<S(txt_Xyz, 22, 4, 150, 460)>>) >>)
\* 11pt bold at the left margin
bBoldSmall == Blk(<< Ln(<<S(txt_Note, 11, 20, 0, 80)>>) >>)
\* 11pt regular body text
bBody == Blk(<< Ln(<<S(txt_text, 11, 0, 0, 590)>>) >>)
\* 18pt caption that the body-text filter rejects
bNoise == Blk(<< Ln(<<S(txt_Table, 18, 0, 0, 100)>>) >>)
\* 16pt centered short all-caps line
bUpper == Blk(<< Ln(<<S(txt_INTRO, 16, 0, 250, 350)>>) >>)
\* one 16pt line: a centered span, a blank span, and a span at the right margin
bMixed == Blk(<< Ln(<< S(txt_Ab, 16, 0, 280, 320), S(txt_blank, 16, 0, 320, 330),
                        S(txt_c, 16, 16, 500, 600) >>) >>)
\* 9pt centered line followed by a 13pt line on the boundary of the centered band
bTiny == Blk(<< Ln(<<S(txt_Note, 9, 0, 250, 350)>>), Ln(<<S(txt_Xyz, 13, 0, 400, 500)>>) >>)
\* an image block: no 'lines' key
bImage == [has_lines |-> FALSE, lines |-> <<>>]

\* every page is 600 units wide
Pg(blocks) == [width |-> 600, blocks |-> blocks]

PagePool ==
    { Pg(<<>>),
      Pg(<<bTitle, bLeftBig>>),
      Pg(<<bLeftBig, bCenterSmall>>),
      Pg(<<bCenterSmall, bCenterXyz, bTitle>>),
      Pg(<<bBoldSmall, bNoise, bImage, bBody>>),
      Pg(<<bUpper, bMixed, bTiny>>) }

Docs == {[pages |-> ps] : ps \in UNION {[1..n -> PagePool] : n \in 0..MaxPages}}

Init ==
    /\ doc \in Docs
    /\ fault = "none"
    /\ title = <<>>
    /\ result = NoResult
    /\ handle = "none"
    /\ pc = "call"
    /\ LevelOff
    /\ FolderOff

\* one call of extract_outline; f is where the library raised, if anywhere
ExtractOutline ==
    /\ pc = "call"
    /\ \E f \in Faults :
          LET r == extract_outline(doc, f)
          IN /\ fault' = f
             /\ title' = r.title
             /\ result' = r.result
             /\ handle' = r.handle
    /\ pc' = "returned"
    /\ UNCHANGED doc
    /\ UNCHANGED lvars
    /\ UNCHANGED fvars

Next == ExtractOutline

Spec == Init /\ [][Next]_vars

----------------------------------------------------------------------------
(* process_folder *)

dot_pdf == <<".", "p", "d", "f">>
dot_json == <<".", "j", "s", "o", "n">>

\* the test without lower()
is_pdf_case_sensitive(f) == EndsWith(f, dot_pdf)

\* f.lower().endswith('.pdf')
is_pdf(f) == EndsWith(Lower(f), dot_pdf)

\* [f for f in os.listdir(input_folder) if f.lower().endswith('.pdf')]
RECURSIVE select_pdf_files(_)
select_pdf_files(names) ==
    IF names = <<>> THEN <<>>
    ELSE IF is_pdf(Head(names))
    THEN <<Head(names)>> \o select_pdf_files(Tail(names))
    ELSE select_pdf_files(Tail(names))

\* os.path.splitext(filename)[0] for a name without a directory part: the
\* name up to its last dot, unless only dots precede that dot
splitext_root(filename) ==
    LET dots == {i \in DOMAIN filename : filename[i] = "."}
    IN IF dots = {} THEN filename
       ELSE LET dotIndex == CHOOSE i \in dots : \A j \in dots : j <= i
            IN IF \E k \in 1..(dotIndex - 1) : filename[k] # "."
               THEN SubSeq(filename, 1, dotIndex - 1)
               ELSE filename

\* f"{base_name}.json"
output_name(filename) == splitext_root(filename) \o dot_json

\* the exception of a failed save leaving process_folder
after_save_uncaught(write_ok, last) == IF ~write_ok \/ last THEN "returned" ELSE "loop"

\* try: ... json.dump ... except Exception: print(...); then the next file
after_save(write_ok, last) == IF last THEN "returned" ELSE "loop"

\* the open file overwritten or created
save(files, name, data) ==
    [n \in DOMAIN files \cup {name} |-> IF n = name THEN data ELSE files[n]]

----------------------------------------------------------------------------
(* Specification SpecFolder: process_folder on a directory listing *)

MaxFiles == 3

name_a_pdf == <<"a", ".", "p", "d", "f">>
name_a_PDF == <<"a", ".", "P", "D", "F">>
name_b_x_Pdf == <<"b", ".", "x", ".", "P", "d", "f">>
name_pdf_txt == <<"p", "d", "f", ".", "t", "x", "t">>
name_dotpdf == <<".", "p", "d", "f">>

NamePool == {name_a_pdf, name_a_PDF, name_b_x_Pdf, name_pdf_txt, name_dotpdf}

\* os.listdir: distinct names in arbitrary order
Listings ==
    {l \in UNION {[1..n -> NamePool] : n \in 0..MaxFiles} :
        \A i, j \in DOMAIN l : i # j => l[i] # l[j]}

\* what a file may hold
FolderDocs == { [pages |-> <<>>], [pages |-> <<Pg(<<bTitle, bLeftBig>>)>>] }

InitFolder ==
    /\ listing \in Listings
    /\ pdf_files = <<>>
    /\ idx = 0
    /\ processed = <<>>
    /\ attempts = <<>>
    /\ outputs = <<>>
    /\ fpc = "call"
    /\ LevelOff
    /\ OutlineOff

\* os.makedirs, the listing filtered, and the early return
ProcessFolderStart ==
    /\ fpc = "call"
    /\ pdf_files' = select_pdf_files(listing)
    /\ fpc' = IF select_pdf_files(listing) = <<>> THEN "returned" ELSE "loop"
    /\ UNCHANGED <<listing, idx, processed, attempts, outputs>>
    /\ UNCHANGED lvars
    /\ UNCHANGED ovars

\* one iteration of: for filename in pdf_files
ProcessFile ==
    /\ fpc = "loop"
    /\ idx < Len(pdf_files)
    /\ LET filename == pdf_files[idx + 1]
       IN \E d \in FolderDocs, f \in Faults, write_ok \in BOOLEAN :
             /\ processed' = Append(processed, filename)
             /\ attempts' = Append(attempts, output_name(filename))
             /\ outputs' = IF write_ok
                           THEN save(outputs, output_name(filename), extract_outline(d, f).result)
                           ELSE outputs
             /\ fpc' = after_save(write_ok, idx + 1 = Len(pdf_files))
    /\ idx' = idx + 1
    /\ UNCHANGED <<listing, pdf_files>>
    /\ UNCHANGED lvars
    /\ UNCHANGED ovars

NextFolder == ProcessFolderStart \/ ProcessFile

SpecFolder == InitFolder /\ [][NextFolder]_vars

----------------------------------------------------------------------------
(* Properties of determine_heading_levels *)

TextKey(text) == Lower(Strip(text))

InputSizes == {extracted[i].size : i \in DOMAIN extracted}

\* 1 for the largest distinct size of the input, 2 for the next, ...
SizeRank(size) == 1 + Cardinality({s \in InputSizes : s > size})

LevelNo(level) == CHOOSE n \in 1..3 : <<"H1", "H2", "H3">>[n] = level

\* index of the first input tuple equal to t
FirstPos(t) ==
    CHOOSE i \in DOMAIN extracted :
        extracted[i] = t /\ \A j \in DOMAIN extracted : extracted[j] = t => i <= j

\* C2: the headings returned by determine_heading_levels have pairwise
\* distinct lowercased, trimmed texts.
C2_DistinctKeys ==
    lpc = "returned" =>
        \A i, j \in DOMAIN headings :
            i # j => TextKey(headings[i].text) # TextKey(headings[j].text)

\* C2 witness: two input tuples whose texts differ only in case and blanks
\* were both eligible, and two headings were returned.
C2_Witness ==
    /\ lpc = "returned"
    /\ Len(headings) = 2
    /\ Cardinality(InputSizes) <= 3
    /\ \E i, j \in DOMAIN extracted :
          /\ extracted[i].text # extracted[j].text
          /\ Strip(extracted[i].text) # Strip(extracted[j].text)
          /\ TextKey(extracted[i].text) = TextKey(extracted[j].text)

\* C4: the level of every returned heading is the rank of its source size
\* among the distinct sizes of the input (largest H1, then H2, then H3); no
\* heading comes from a tuple whose size ranks 4th or lower; of two headings
\* the one with the larger source size has the more senior level; at most
\* min(3, number of distinct sizes) levels appear.
C4_RankLevels ==
    lpc = "returned" =>
        /\ Len(sources) = Len(headings)
        /\ \A k \in DOMAIN headings :
              /\ \E i \in DOMAIN extracted : extracted[i] = sources[k]
              /\ headings[k].text = Strip(sources[k].text)
              /\ headings[k].page = sources[k].page
              /\ SizeRank(sources[k].size) <= 3
              /\ headings[k].level = <<"H1", "H2", "H3">>[SizeRank(sources[k].size)]
        /\ \A i \in DOMAIN extracted :
              SizeRank(extracted[i].size) >= 4 =>
                  \A k \in DOMAIN sources : sources[k] # extracted[i]
        /\ \A k, l \in DOMAIN headings :
              sources[k].size > sources[l].size =>
                  LevelNo(headings[k].level) < LevelNo(headings[l].level)
        /\ Cardinality({headings[k].level : k \in DOMAIN headings}) <= 3
        /\ Cardinality({headings[k].level : k \in DOMAIN headings})
              <= Cardinality(InputSizes)

\* C4 witness: four distinct sizes in the input, three levels in the output.
C4_Witness ==
    /\ lpc = "returned"
    /\ Cardinality(InputSizes) = 4
    /\ {headings[k].level : k \in DOMAIN headings} = {"H1", "H2", "H3"}

\* C5: the returned headings are ordered by page ascending, then by source
\* font size descending, and headings of one page and one size keep the order
\* in which their tuples were passed in.
C5_Order ==
    lpc = "returned" =>
        \A k, l \in DOMAIN headings :
            k < l =>
                \/ headings[k].page < headings[l].page
                \/ /\ headings[k].page = headings[l].page
                   /\ sources[k].size > sources[l].size
                \/ /\ headings[k].page = headings[l].page
                   /\ sources[k].size = sources[l].size
                   /\ FirstPos(sources[k]) < FirstPos(sources[l])

\* C5 witness: two headings of the same page and size were returned for an
\* input that was not in page order.
C5_Witness ==
    /\ lpc = "returned"
    /\ \E k, l \in DOMAIN headings :
          /\ k < l
          /\ headings[k].page = headings[l].page
          /\ sources[k].size = sources[l].size
    /\ \E i, j \in DOMAIN extracted : i < j /\ extracted[i].page > extracted[j].page

Leveled(i) == SizeRank(extracted[i].size) <= 3

\* i comes before j in the processing order: page ascending, size
\* descending, then position in the input
Before(i, j) ==
    \/ extracted[i].page < extracted[j].page
    \/ /\ extracted[i].page = extracted[j].page
       /\ extracted[i].size > extracted[j].size
    \/ /\ extracted[i].page = extracted[j].page
       /\ extracted[i].size = extracted[j].size
       /\ i < j

\* C10: for every eligible input tuple, the output holds exactly one heading
\* with its key, and that heading is made from the eligible tuple of that key
\* that is first in the processing order (its level, its trimmed text, its
\* page); a key no eligible tuple has is absent from the output.
C10_FirstWins ==
    lpc = "returned" =>
        /\ \A i \in DOMAIN extracted :
              Leveled(i) =>
                  LET group == {j \in DOMAIN extracted :
                                   /\ Leveled(j)
                                   /\ TextKey(extracted[j].text) = TextKey(extracted[i].text)}
                      first == CHOOSE j \in group : \A m \in group : m # j => Before(j, m)
                      hits == {k \in DOMAIN headings :
                                   TextKey(headings[k].text) = TextKey(extracted[i].text)}
                  IN /\ Cardinality(hits) = 1
                     /\ \A k \in hits :
                           headings[k] =
                               [level |-> <<"H1", "H2", "H3">>[SizeRank(extracted[first].size)],
                                text |-> Strip(extracted[first].text),
                                page |-> extracted[first].page]
        /\ \A k \in DOMAIN headings :
              \E i \in DOMAIN extracted :
                  Leveled(i) /\ TextKey(extracted[i].text) = TextKey(headings[k].text)

\* C10 witness: a tuple whose size has no level precedes, in the processing
\* order, an eligible tuple of the same key on another page with another
\* raw text, and the heading of that key was returned.
C10_Witness ==
    /\ lpc = "returned"
    /\ \E i, j \in DOMAIN extracted :
          /\ ~Leveled(i)
          /\ Leveled(j)
          /\ Before(i, j)
          /\ extracted[i].page # extracted[j].page
          /\ extracted[i].text # extracted[j].text
          /\ TextKey(extracted[i].text) = TextKey(extracted[j].text)
          /\ \E k \in DOMAIN headings :
                /\ headings[k].text = Strip(extracted[j].text)
                /\ headings[k].page = extracted[j].page

----------------------------------------------------------------------------
(* Properties of extract_outline and extract_title *)

\* C1: the returned outline has no entry whose lowercased, trimmed text
\* equals the lowercased, trimmed returned title, whether or not the call
\* failed.
C1_TitleNotInOutline ==
    pc = "returned" =>
        \A k \in DOMAIN result.outline :
            Lower(Strip(result.outline[k].text)) # Lower(Strip(result.title))

\* C1 witness: the call succeeded, the leveler had produced a heading that
\* equals the title up to case, and other headings were returned.
C1_Witness ==
    /\ pc = "returned"
    /\ fault = "none"
    /\ result.title # <<>>
    /\ result.outline # <<>>
    /\ LET hs == determine_heading_levels(extract_font_info(doc)).headings
       IN \E k \in DOMAIN hs :
             /\ hs[k].text # result.title
             /\ Lower(hs[k].text) = Lower(result.title)

\* C3: extract_outline never returns with the document handle still open.
C3_HandleReleased ==
    pc = "returned" => handle # "open"

\* C6 as claimed: whenever something failed, in open, title extraction,
\* font-info collection or leveling, the result is exactly {"", []}.
C6_AnyFailureEmpty ==
    (pc = "returned" /\ fault # "none") => result = [title |-> <<>>, outline |-> <<>>]

\* C6 amended: a failure in open, font-info collection or leveling makes the
\* result exactly {"", []}; a failure inside title extraction makes the title
\* empty and leaves the outline to be computed as usual.
C6_FailSoft ==
    pc = "returned" =>
        /\ fault \in {"open", "font_info", "leveling"} =>
              result = [title |-> <<>>, outline |-> <<>>]
        /\ fault = "title" =>
              /\ result.title = <<>>
              /\ result.outline = determine_heading_levels(extract_font_info(doc)).headings

\* C6 witness: leveling failed after a non-empty title and heading candidates
\* had been computed.
C6_Witness ==
    /\ pc = "returned"
    /\ fault = "leveling"
    /\ title # <<>>
    /\ extract_font_info(doc) # <<>>
    /\ result = [title |-> <<>>, outline |-> <<>>]

\* the combined text of block b, as extract_font_info records it
C8_BlockText(b) ==
    LET c == block_candidate(b, 1) IN IF c = <<>> THEN <<>> ELSE c[1].text

\* C8: every returned outline entry has a level among H1, H2, H3 and a page
\* number >= 1 that is the 1-indexed number of a page of the document holding
\* a block with the entry's text.
C8_LevelAndPage ==
    pc = "returned" =>
        \A k \in DOMAIN result.outline :
            LET h == result.outline[k]
            IN /\ h.level \in {"H1", "H2", "H3"}
               /\ h.page >= 1
               /\ h.page <= Len(doc.pages)
               /\ \E b \in DOMAIN doc.pages[h.page].blocks :
                     /\ doc.pages[h.page].blocks[b].has_lines
                     /\ C8_BlockText(doc.pages[h.page].blocks[b]) = h.text

\* C8 witness: an entry of the last page of a multi-page document whose text
\* occurs on no earlier page.
C8_Witness ==
    /\ pc = "returned"
    /\ Len(doc.pages) >= 2
    /\ \E k \in DOMAIN result.outline :
          /\ result.outline[k].page = Len(doc.pages)
          /\ \A p \in 1..(Len(doc.pages) - 1) :
                \A b \in DOMAIN doc.pages[p].blocks :
                    C8_BlockText(doc.pages[p].blocks[b]) # result.outline[k].text

----------------------------------------------------------------------------
(* extract_title *)

\* the page-1 lines, as <<block index, line index>>
C9_Lines ==
    IF Len(doc.pages) = 0 THEN {}
    ELSE {bl \in UNION {{<<b, l>> : l \in DOMAIN doc.pages[1].blocks[b].lines} :
                           b \in DOMAIN doc.pages[1].blocks} :
             doc.pages[1].blocks[bl[1]].has_lines}

\* the spans of a line that are centered and large enough
C9_Spans(bl) ==
    LET w == doc.pages[1].width
        Good(sp) == /\ 4 * Abs((sp.x0 + sp.x1) - w) < 2 * w
                    /\ sp.size >= min_font_size
    IN SelectSeq(doc.pages[1].blocks[bl[1]].lines[bl[2]].spans, Good)

C9_Text(bl) ==
    LET q == C9_Spans(bl) IN Strip(JoinSpace([i \in DOMAIN q |-> Strip(q[i].text)]))

C9_Size(bl) ==
    LET q == C9_Spans(bl)
    IN CHOOSE m \in {q[i].size : i \in DOMAIN q} : \A i \in DOMAIN q : q[i].size <= m

C9_Qualifying ==
    {bl \in C9_Lines : C9_Spans(bl) # <<>> /\ Len(C9_Text(bl)) >= min_text_length}

\* C9: extract_title returns "" when it failed, when the document has no
\* page or when no page-1 line qualifies; otherwise the text of a qualifying
\* line of largest size, followed, when there is another qualifying line, by
\* one space and the text of a line of largest size among the others.  A line
\* qualifies when it has a centered span of at least min_font_size and the
\* trimmed text of those spans has at least min_text_length characters.
C9_Title ==
    (pc = "returned" /\ fault # "open") =>
        IF fault = "title" \/ C9_Qualifying = {}
        THEN title = <<>>
        ELSE \E i \in C9_Qualifying :
                /\ \A k \in C9_Qualifying : C9_Size(i) >= C9_Size(k)
                /\ \/ C9_Qualifying = {i} /\ title = C9_Text(i)
                   \/ \E j \in C9_Qualifying \ {i} :
                         /\ \A k \in C9_Qualifying \ {i} : C9_Size(j) >= C9_Size(k)
                         /\ title = C9_Text(i) \o <<" ">> \o C9_Text(j)

\* C9 witness: at least three lines qualify, the first of them in reading
\* order is not among the two largest, and a title was returned.
C9_Witness ==
    /\ pc = "returned"
    /\ fault = "none"
    /\ title # <<>>
    /\ Cardinality(C9_Qualifying) >= 3
    /\ \E i \in C9_Qualifying :
          /\ \A k \in C9_Qualifying : k = i \/ i[1] < k[1] \/ (i[1] = k[1] /\ i[2] < k[2])
          /\ Cardinality({k \in C9_Qualifying : C9_Size(k) > C9_Size(i)}) >= 2

----------------------------------------------------------------------------
(* Properties of process_folder *)

C7_IsPdf(name) ==
    /\ Len(name) >= 4
    /\ LowerChar(name[Len(name) - 3]) = "."
    /\ LowerChar(name[Len(name) - 2]) = "p"
    /\ LowerChar(name[Len(name) - 1]) = "d"
    /\ LowerChar(name[Len(name)]) = "f"

\* the name without its last four characters, or the whole name when those
\* four characters are all there is
C7_BaseName(name) == IF Len(name) = 4 THEN name ELSE SubSeq(name, 1, Len(name) - 4)

C7_Times(seq, x) == Cardinality({i \in DOMAIN seq : seq[i] = x})

\* C7: when process_folder returns, extract_outline has been called exactly
\* once for every listed name that ends in .pdf in any letter case and for no
\* other name, and for each of them one write of <base name>.json was
\* attempted, whatever failed on the way.
C7_Batch ==
    fpc = "returned" =>
        /\ \A i \in DOMAIN listing :
              C7_Times(processed, listing[i]) = IF C7_IsPdf(listing[i]) THEN 1 ELSE 0
        /\ \A i \in DOMAIN processed : \E j \in DOMAIN listing : listing[j] = processed[i]
        /\ Len(attempts) = Len(processed)
        /\ \A i \in DOMAIN processed :
              attempts[i] = C7_BaseName(processed[i]) \o <<".", "j", "s", "o", "n">>

\* C7 witness: a listing with a non-.pdf entry; the write for the first .pdf
\* file failed, and a later file was processed and its output saved.
C7_Witness ==
    /\ fpc = "returned"
    /\ \E i \in DOMAIN listing : ~C7_IsPdf(listing[i])
    /\ Len(processed) >= 2
    /\ attempts[1] \notin DOMAIN outputs
    /\ attempts[Len(attempts)] \in DOMAIN outputs

====
